---- MODULE Spec2Model ----
(***************************************************************************)
(* Dispatch layer of mangadex-api: the shared HttpClient (base URL, auth   *)
(* tokens, captcha), the endpoint! descriptors, send_request /             *)
(* send_request_without_deserializing and IsFollowingGroup::send.          *)
(***************************************************************************)
EXTENDS Integers, Sequences, FiniteSets, TLC

(* ------------------------------ bounds -------------------------------- *)
\* distinct session / refresh token strings a caller may pass
NumTokens == 2
\* distinct captcha solutions a caller may pass
NumCaptchas == 2
\* distinct structured error entries a server may put in "errors"
NumErrorIds == 2
\* longest "errors" array a response carries
MaxErrors == 2
\* distinct success payloads of one response shape
NumPayloads == 1
\* longest "data" array of a collection response
MaxData == 2

(* --------------------------- value domains ---------------------------- *)
\* Option<T>: None is the empty sequence, Some(x) the one-element sequence
None == <<>>
Some(x) == <<x>>

\* crate::v5::AuthTokens { session, refresh }: two opaque strings
AuthTokens == [session : {<<"session", i>> : i \in 1..NumTokens},
               refresh : {<<"refresh", i>> : i \in 1..NumTokens}]

Captchas == {<<"captcha", i>> : i \in 1..NumCaptchas}

\* base URLs: the two compiled-in ones and one handed to HttpClient::builder()
\* that parses as a Url but cannot be a base ("localhost:8000")
API_URL == "https://api.mangadex.org"
API_DEV_URL == "https://api.mangadex.dev"
CUSTOM_URL == "localhost:8000"
BaseUrls == {API_URL, API_DEV_URL, CUSTOM_URL}

\* the two builds of HttpClientRef
Modes == {"exclusive", "shared"}

Tasks == {"t1", "t2"}
\* tasks that run in the sequential specification
SeqTasks == {"t1"}

(* ----------------------------- endpoints ------------------------------ *)
\* endpoint! { GET "/chapter", #[query] ListChapter, #[flatten_result] ChapterListResponse }
ListChapter ==
    [name |-> "ListChapter", method |-> "GET", path |-> "/chapter",
     query |-> TRUE, require_auth |-> FALSE, shape |-> "collection"]

\* endpoint! { GET "/manga/status", #[query auth] MangaReadingStatuses, ... }
MangaReadingStatuses ==
    [name |-> "MangaReadingStatuses", method |-> "GET", path |-> "/manga/status",
     query |-> TRUE, require_auth |-> TRUE, shape |-> "statuses"]

\* endpoint! { GET ("/user/follows/group/{}", group_id), #[no_data auth] IsFollowingGroup, #[no_send] ... }
IsFollowingGroup ==
    [name |-> "IsFollowingGroup", method |-> "GET", path |-> "/user/follows/group/{id}",
     query |-> FALSE, require_auth |-> TRUE, shape |-> "nodata"]

Endpoints == {ListChapter, MangaReadingStatuses, IsFollowingGroup}

\* endpoints whose send() comes from the endpoint! macro (@send:flatten_result)
GenericEndpoints == {ListChapter, MangaReadingStatuses}

(* ----------------------------- responses ------------------------------ *)
\* status codes the server may answer with: 200, another 2xx, a 3xx, two 4xx,
\* a 5xx
Statuses == {200, 204, 302, 403, 404, 500}

\* JSON values as they stand in a body: null, a missing key, a string, a number
JNull == <<"null">>
JAbsent == <<"absent">>
JStr(x) == <<"str", x>>
JNum(n) == <<"num", n>>
IsStr(j) == j[1] = "str"
IsNum(j) == j[1] = "num"

\* {"id": .., "status": .., "title": .., "detail": ..}; title is optional and
\* left out of every second entry
ErrorEntry(i) ==
    [id |-> JStr(<<"error", i>>), status |-> JNum(400 + i),
     title |-> IF i % 2 = 1 THEN JStr(<<"title", i>>) ELSE JAbsent,
     detail |-> JStr(<<"detail", i>>)]

ErrorEntries == {ErrorEntry(i) : i \in 1..NumErrorIds}

\* the "attributes" object of a chapter (the fields of ChapterAttributes that
\* differ in how they are decoded: String with the null default, Option<String>,
\* u32, Option<Uuid> skipped when None, u32)
ChapterWire(title, volume, pages, uploader, version) ==
    [title |-> title, volume |-> volume, pages |-> pages, uploader |-> uploader,
     version |-> version]

\* the chapter of list_chapter_fires_a_request_to_base_url, and a bare one
FullChapter == ChapterWire(JStr("Summoning"), JStr("1"), JNum(4), JStr("uploader"), JNum(1))
BareChapter == ChapterWire(JStr(""), JNull, JNum(0), JAbsent, JNum(2))
\* the known upstream inconsistency: "title": null
NullTitleChapter == ChapterWire(JNull, JStr("1"), JNum(4), JAbsent, JNum(1))
\* chapters that do not match ChapterAttributes
NullPagesChapter == ChapterWire(JStr("Summoning"), JStr("1"), JNull, JAbsent, JNum(1))
NullVersionChapter == ChapterWire(JStr("Summoning"), JNull, JNum(4), JAbsent, JNull)

\* {"id": .., "type": "chapter", "attributes": {..}, "relationships": []}
ChapterObject(id, attrs) == [id |-> JStr(id), attributes |-> attrs]

\* {"result":"ok","response":"collection","data":[..],"limit":..,"offset":..,"total":..}
CollectionBody(data) ==
    [kind |-> "ok", shape |-> "collection", data |-> data,
     limit |-> JNum(10), offset |-> JNum(Len(data)), total |-> JNum(Len(data) + 20)]

RECURSIVE SeqsUpTo(_, _)
SeqsUpTo(S, n) ==
    IF n = 0 THEN {<<>>}
    ELSE LET shorter == SeqsUpTo(S, n - 1)
         IN shorter \cup {Append(s, x) : s \in {q \in shorter : Len(q) = n - 1}, x \in S}

\* response bodies, as the text the server sent:
\*   truncated  the connection broke while the body was read
\*   notjson    text that is not JSON
\*   nodisc     a JSON object without the "result" discriminator
\*   ok         {"result":"ok", ...}; shape says which payload follows
\*              ("nodata": nothing follows), data is the payload
\*   error      {"result":"error","errors":[...]}
Truncated == [kind |-> "truncated"]
MatchingCollections ==
    {CollectionBody(d) :
        d \in SeqsUpTo({ChapterObject("c1", FullChapter), ChapterObject("c2", BareChapter)}, MaxData)}
DeviatingCollections ==
    {CollectionBody(<<ChapterObject("c3", a)>>) :
        a \in {NullTitleChapter, NullPagesChapter, NullVersionChapter}}
OkBodies == {[kind |-> "ok", shape |-> "nodata", data |-> 0]}
            \cup [kind : {"ok"}, shape : {"statuses"}, data : 1..NumPayloads]
            \cup MatchingCollections \cup DeviatingCollections
ErrorBodies == [kind : {"error"}, errors : SeqsUpTo(ErrorEntries, MaxErrors)]
Bodies == {Truncated, [kind |-> "notjson"], [kind |-> "nodisc"]} \cup OkBodies \cup ErrorBodies

Responses == [status : Statuses, body : Bodies]

(* ------------------------------- state -------------------------------- *)
VARIABLES
    mode,         \* cfg(feature = "multi-thread"): "shared", else "exclusive"
    base_url,     \* HttpClient.base_url
    auth_tokens,  \* HttpClient.auth_tokens : Option<AuthTokens>
    captcha,      \* HttpClient.captcha : Option<String>
    holders,      \* tasks holding the MutexGuard (shared) or a Ref (exclusive)
    writer,       \* exclusive build: a RefMut of the handle is kept alive by its owner
    pc,           \* per task: position inside send()
    endpoint,     \* per task: the endpoint value being sent (None when idle)
    req,          \* per task: the request in the hands of the transport (None if none)
    resp,         \* per task: the response the transport returned (None if none)
    result,       \* per task: what send() returned (None until it returns)
    calls,        \* per task: transport invocations made by the current send()
    lastAuthOp,   \* history: the last setAuthTokens/clearAuthTokens call
    lastCaptchaOp, \* history: the last setCaptcha/clearCaptcha call
    codec         \* a document on its way through from_str, to_string, from_str

client == <<base_url, auth_tokens, captcha>>
taskVars == <<pc, endpoint, req, resp, result, calls>>
history == <<lastAuthOp, lastCaptchaOp>>
vars == <<mode, base_url, auth_tokens, captcha, holders, writer, pc, endpoint, req, resp,
          result, calls, lastAuthOp, lastCaptchaOp, codec>>

(* ------------------------------ results ------------------------------- *)
\* mangadex_api_types::error::Error variants and Ok values returned by send()
MissingTokens == [tag |-> "MissingTokens"]
\* try_borrow()? failed (std::cell::BorrowError)
BorrowConflict == [tag |-> "BorrowError"]
ParseUrlError == [tag |-> "ParseUrlError"]
\* Error::RequestError(reqwest::Error): kind "transport" (send failed),
\* "body" (the body could not be read), "decode" (the body is not the JSON expected)
RequestError(kind) == [tag |-> "RequestError", kind |-> kind]
ServerError(status, body) == [tag |-> "ServerError", status |-> status, body |-> body]
Api(errors) == [tag |-> "Api", errors |-> errors]
OkResult(value) == [tag |-> "Ok", value |-> value]
IsFollowingResponse(b) == [is_following |-> b]

(* ------------------------ HttpClient accessors ------------------------ *)
get_tokens == auth_tokens
get_captcha == captcha

(* ------------------- send_request_without_deserializing ---------------- *)
\* self.base_url.join(&endpoint.path())? and query_qs: a base URL that cannot
\* be a base makes join fail
EndpointUrl(base, e) ==
    IF base = CUSTOM_URL
    THEN [ok |-> FALSE]
    ELSE [ok |-> TRUE, url |-> [base |-> base, path |-> e.path, query |-> e.query]]

\* a slip that would send the refresh token as bearer
bearer_auth_Refresh(tokens) == <<"Authorization", <<"Bearer", tokens.refresh>>>>

\* req.bearer_auth(&tokens.session)
bearer_auth(tokens) == <<"Authorization", <<"Bearer", tokens.session>>>>

\* a slip that would drop the require_auth check
AuthHeaders_NoAuthCheck(tokens, e) ==
    IF tokens # None
    THEN [ok |-> TRUE, headers |-> {<<"Authorization", <<"Bearer", tokens[1].session>>>>}]
    ELSE [ok |-> TRUE, headers |-> {}]

\* if let Some(tokens) = self.get_tokens() { bearer_auth } else if require_auth { Err }
AuthHeaders(tokens, e) ==
    IF tokens # None
    THEN [ok |-> TRUE, headers |-> {bearer_auth(tokens[1])}]
    ELSE IF e.require_auth
         THEN [ok |-> FALSE]
         ELSE [ok |-> TRUE, headers |-> {}]

\* if let Some(captcha) = self.get_captcha() { req.header("X-Captcha-Result", captcha) }
CaptchaHeaders(capt) ==
    IF capt # None THEN {<<"X-Captcha-Result", capt[1]>>} ELSE {}

\* a slip that would attach the captcha only inside the tokens branch
BuildRequest_CaptchaNeedsAuth(base, tokens, capt, e) ==
    LET u == EndpointUrl(base, e)
        a == AuthHeaders(tokens, e)
    IN  IF ~u.ok THEN [ok |-> FALSE, error |-> ParseUrlError]
        ELSE IF ~a.ok THEN [ok |-> FALSE, error |-> MissingTokens]
        ELSE [ok |-> TRUE,
              request |-> [method |-> e.method, url |-> u.url,
                           headers |-> a.headers \cup
                               (IF tokens # None THEN CaptchaHeaders(capt) ELSE {})]]

\* everything send_request_without_deserializing does before req.send().await:
\* either an early Err or the request that is handed to the transport
BuildRequest(base, tokens, capt, e) ==
    LET u == EndpointUrl(base, e)
        a == AuthHeaders(tokens, e)
    IN  IF ~u.ok THEN [ok |-> FALSE, error |-> ParseUrlError]
        ELSE IF ~a.ok THEN [ok |-> FALSE, error |-> MissingTokens]
        ELSE [ok |-> TRUE,
              request |-> [method |-> e.method, url |-> u.url,
                           headers |-> a.headers \cup CaptchaHeaders(capt)]]

(* --------------------------- schema decoding -------------------------- *)
\* Option<String> / Option<Uuid>: null or a missing key is None
OptString(j) == IF j \in {JNull, JAbsent} THEN None ELSE Some(j[2])
IsOptString(j) == j \in {JNull, JAbsent} \/ IsStr(j)

\* one entry of "errors": { id, status, title: Option, detail: Option }
deserialize_error(w) ==
    [id |-> w.id[2], status |-> w.status[2],
     title |-> OptString(w.title), detail |-> OptString(w.detail)]

DecodeErrors(ws) == [i \in 1..Len(ws) |-> deserialize_error(ws[i])]

\* #[serde(deserialize_with = "deserialize_null_default")]: null gives
\* String::default(); the key itself must be there
deserialize_null_default(j) ==
    IF j = JNull THEN [ok |-> TRUE, value |-> ""]
    ELSE IF IsStr(j) THEN [ok |-> TRUE, value |-> j[2]]
    ELSE [ok |-> FALSE]

\* a slip that would put the null default on the u32 fields as well
deserialize_ChapterAttributes_AllDefault(w) ==
    LET title == deserialize_null_default(w.title)
    IN IF title.ok /\ IsOptString(w.volume) /\ IsOptString(w.uploader)
       THEN [ok |-> TRUE,
             value |-> [title |-> title.value, volume |-> OptString(w.volume),
                        pages |-> IF IsNum(w.pages) THEN w.pages[2] ELSE 0,
                        uploader |-> OptString(w.uploader),
                        version |-> IF IsNum(w.version) THEN w.version[2] ELSE 0]]
       ELSE [ok |-> FALSE]

\* a slip that would leave the volume out of the decoded chapter
deserialize_ChapterAttributes_NoVolume(w) ==
    LET title == deserialize_null_default(w.title)
    IN IF title.ok /\ IsOptString(w.volume) /\ IsNum(w.pages)
          /\ IsOptString(w.uploader) /\ IsNum(w.version)
       THEN [ok |-> TRUE,
             value |-> [title |-> title.value, volume |-> None,
                        pages |-> w.pages[2], uploader |-> OptString(w.uploader),
                        version |-> w.version[2]]]
       ELSE [ok |-> FALSE]

\* #[derive(Deserialize)] struct ChapterAttributes
deserialize_ChapterAttributes(w) ==
    LET title == deserialize_null_default(w.title)
    IN IF title.ok /\ IsOptString(w.volume) /\ IsNum(w.pages)
          /\ IsOptString(w.uploader) /\ IsNum(w.version)
       THEN [ok |-> TRUE,
             value |-> [title |-> title.value, volume |-> OptString(w.volume),
                        pages |-> w.pages[2], uploader |-> OptString(w.uploader),
                        version |-> w.version[2]]]
       ELSE [ok |-> FALSE]

\* #[cfg_attr(feature = "serialize", derive(serde::Serialize))] struct
\* ChapterAttributes; uploader has skip_serializing_if = "Option::is_none"
serialize_ChapterAttributes(v) ==
    [title |-> JStr(v.title),
     volume |-> IF v.volume = None THEN JNull ELSE JStr(v.volume[1]),
     pages |-> JNum(v.pages),
     uploader |-> IF v.uploader = None THEN JAbsent ELSE JStr(v.uploader[1]),
     version |-> JNum(v.version)]

\* impl From<String> for CustomListVisibility
CustomListVisibility_from(value) ==
    CASE value = "public" -> "Public"
      [] value = "private" -> "Private"
      [] OTHER -> "Public"

\* #[derive(Deserialize)] #[serde(from = "String")] enum CustomListVisibility
deserialize_CustomListVisibility(j) ==
    IF IsStr(j) THEN [ok |-> TRUE, value |-> CustomListVisibility_from(j[2])]
    ELSE [ok |-> FALSE]

\* #[derive(Serialize)] enum CustomListVisibility: a unit variant is written
\* as its name
serialize_CustomListVisibility(v) == JStr(v)

\* #[derive(Deserialize)] struct CustomListAttributes { name, visibility, version }
deserialize_CustomListAttributes(w) ==
    LET vis == deserialize_CustomListVisibility(w.visibility)
    IN IF IsStr(w.name) /\ vis.ok /\ IsNum(w.version)
       THEN [ok |-> TRUE,
             value |-> [name |-> w.name[2], visibility |-> vis.value, version |-> w.version[2]]]
       ELSE [ok |-> FALSE]

\* #[cfg_attr(feature = "serialize", derive(serde::Serialize))] struct CustomListAttributes
serialize_CustomListAttributes(v) ==
    [name |-> JStr(v.name), visibility |-> serialize_CustomListVisibility(v.visibility),
     version |-> JNum(v.version)]

\* the collection wrapper: every element of "data" is decoded, one failure
\* fails the whole body; limit, offset and total are numbers
DecodeCollection(body) ==
    LET attrs == [i \in 1..Len(body.data) |-> deserialize_ChapterAttributes(body.data[i].attributes)]
    IN IF (\A i \in 1..Len(body.data) : attrs[i].ok /\ IsStr(body.data[i].id))
          /\ IsNum(body.limit) /\ IsNum(body.offset) /\ IsNum(body.total)
       THEN [ok |-> TRUE,
             value |-> [shape |-> "collection",
                        data |-> [i \in 1..Len(body.data) |->
                                    [id |-> body.data[i].id[2], attributes |-> attrs[i].value]],
                        limit |-> body.limit[2], offset |-> body.offset[2],
                        total |-> body.total[2]]]
       ELSE [ok |-> FALSE]

(* ------------------------- envelope decoding -------------------------- *)
\* res.json::<ApiResult<T>>(): the "result" discriminator alone selects the
\* shape; NoData accepts every "ok" envelope
ParseEnvelope(body, shape) ==
    CASE body.kind = "truncated" -> [tag |-> "Fail", kind |-> "body"]
      [] body.kind \in {"notjson", "nodisc"} -> [tag |-> "Fail", kind |-> "decode"]
      [] body.kind = "error" -> [tag |-> "Err", errors |-> DecodeErrors(body.errors)]
      [] body.kind = "ok" ->
            IF shape = "nodata" THEN [tag |-> "Ok", value |-> [shape |-> "nodata"]]
            ELSE IF body.shape # shape THEN [tag |-> "Fail", kind |-> "decode"]
            ELSE IF shape = "collection"
                 THEN LET c == DecodeCollection(body)
                      IN IF c.ok THEN [tag |-> "Ok", value |-> c.value]
                         ELSE [tag |-> "Fail", kind |-> "decode"]
                 ELSE [tag |-> "Ok", value |-> [shape |-> shape, data |-> body.data]]

\* res.text().await?
ReadText(body) ==
    IF body.kind = "truncated" THEN [ok |-> FALSE] ELSE [ok |-> TRUE, text |-> body]

is_server_error(status) == status >= 500 /\ status <= 599

\* a slip that would decode the body before looking at the status
send_request_ParseFirst(e, res) ==
    LET parsed == ParseEnvelope(res.body, e.shape)
    IN CASE parsed.tag = "Err" -> Api(parsed.errors)
         [] parsed.tag = "Ok" -> OkResult(parsed.value)
         [] parsed.tag = "Fail" ->
                IF is_server_error(res.status) /\ parsed.kind # "body"
                THEN ServerError(res.status, res.body)
                ELSE RequestError(parsed.kind)

\* a slip that would treat every status >= 400 as a server error
send_request_ClientErrorIsServerError(e, res) ==
    IF res.status >= 400
    THEN LET txt == ReadText(res.body)
         IN IF txt.ok THEN ServerError(res.status, txt.text) ELSE RequestError("body")
    ELSE LET parsed == ParseEnvelope(res.body, e.shape)
         IN CASE parsed.tag = "Fail" -> RequestError(parsed.kind)
              [] parsed.tag = "Err" -> Api(parsed.errors)
              [] parsed.tag = "Ok" -> OkResult(parsed.value)

\* a slip that would report the first entry of "errors" only
send_request_FirstErrorOnly(e, res) ==
    IF is_server_error(res.status)
    THEN LET txt == ReadText(res.body)
         IN IF txt.ok THEN ServerError(res.status, txt.text) ELSE RequestError("body")
    ELSE LET parsed == ParseEnvelope(res.body, e.shape)
         IN CASE parsed.tag = "Fail" -> RequestError(parsed.kind)
              [] parsed.tag = "Err" ->
                    Api(IF parsed.errors = <<>> THEN <<>> ELSE <<parsed.errors[1]>>)
              [] parsed.tag = "Ok" -> OkResult(parsed.value)

(* ---------------- send_request: classify and deserialize --------------- *)
\* the part of send_request after send_request_without_deserializing returned
\* Ok(res); the #[flatten_result] send() returns the decoded Result as it is
send_request(e, res) ==
    IF is_server_error(res.status)
    THEN LET txt == ReadText(res.body)
         IN IF txt.ok THEN ServerError(res.status, txt.text) ELSE RequestError("body")
    ELSE LET parsed == ParseEnvelope(res.body, e.shape)
         IN CASE parsed.tag = "Fail" -> RequestError(parsed.kind)
              [] parsed.tag = "Err" -> Api(parsed.errors)
              [] parsed.tag = "Ok" -> OkResult(parsed.value)

\* a slip that would decode the body of a 200 as well
IsFollowingGroup_send_DecodeOn200(res) ==
    IF res.status \in {200, 404}
    THEN LET parsed == ParseEnvelope(res.body, "nodata")
         IN CASE parsed.tag = "Fail" -> RequestError(parsed.kind)
              [] parsed.tag = "Ok" -> OkResult(IsFollowingResponse(res.status = 200))
              [] parsed.tag = "Err" -> Api(parsed.errors)
    ELSE LET txt == ReadText(res.body)
         IN IF txt.ok THEN ServerError(res.status, txt.text) ELSE RequestError("body")

\* a slip that would coerce every decodable 404 to "not following"
IsFollowingGroup_send_CoerceToFalse(res) ==
    IF res.status = 200 THEN OkResult(IsFollowingResponse(TRUE))
    ELSE IF res.status = 404
    THEN LET parsed == ParseEnvelope(res.body, "nodata")
         IN CASE parsed.tag = "Fail" -> RequestError(parsed.kind)
              [] parsed.tag = "Ok" -> OkResult(IsFollowingResponse(FALSE))
              [] parsed.tag = "Err" -> OkResult(IsFollowingResponse(FALSE))
    ELSE LET txt == ReadText(res.body)
         IN IF txt.ok THEN ServerError(res.status, txt.text) ELSE RequestError("body")

\* a change that would coerce a 404 with an empty error list to "not following"
IsFollowingGroup_send_EmptyIsFalse(res) ==
    IF res.status = 200 THEN OkResult(IsFollowingResponse(TRUE))
    ELSE IF res.status = 404
    THEN LET parsed == ParseEnvelope(res.body, "nodata")
         IN CASE parsed.tag = "Fail" -> RequestError(parsed.kind)
              [] parsed.tag = "Ok" -> OkResult(IsFollowingResponse(FALSE))
              [] parsed.tag = "Err" ->
                    IF parsed.errors = <<>> THEN OkResult(IsFollowingResponse(FALSE))
                    ELSE Api(parsed.errors)
    ELSE LET txt == ReadText(res.body)
         IN IF txt.ok THEN ServerError(res.status, txt.text) ELSE RequestError("body")

\* a change that would treat the other statuses as the generic send does:
\* ServerError for 5xx only, the envelope decoded otherwise
IsFollowingGroup_send_GenericOthers(res) ==
    IF res.status = 200 THEN OkResult(IsFollowingResponse(TRUE))
    ELSE IF res.status = 404 \/ ~is_server_error(res.status)
    THEN LET parsed == ParseEnvelope(res.body, "nodata")
         IN CASE parsed.tag = "Fail" -> RequestError(parsed.kind)
              [] parsed.tag = "Ok" -> OkResult(IsFollowingResponse(FALSE))
              [] parsed.tag = "Err" -> Api(parsed.errors)
    ELSE LET txt == ReadText(res.body)
         IN IF txt.ok THEN ServerError(res.status, txt.text) ELSE RequestError("body")

(* ------------------------ IsFollowingGroup::send ---------------------- *)
\* match res.status() { OK => true, NOT_FOUND => decode, other => ServerError }
IsFollowingGroup_send(res) ==
    IF res.status = 200 THEN OkResult(IsFollowingResponse(TRUE))
    ELSE IF res.status = 404
    THEN LET parsed == ParseEnvelope(res.body, "nodata")
         IN CASE parsed.tag = "Fail" -> RequestError(parsed.kind)
              [] parsed.tag = "Ok" -> OkResult(IsFollowingResponse(FALSE))
              [] parsed.tag = "Err" -> Api(parsed.errors)
    ELSE LET txt == ReadText(res.body)
         IN IF txt.ok THEN ServerError(res.status, txt.text) ELSE RequestError("body")

\* the classification send() applies to the response of endpoint e
Classification(e, res) ==
    IF e \in GenericEndpoints THEN send_request(e, res) ELSE IsFollowingGroup_send(res)

(* ------------------------------- Init --------------------------------- *)
\* HttpClient::default(), api_dev_client() or HttpClient::builder()...build():
\* the builder may preset base_url, auth_tokens and captcha; a preset made
\* through the builder's auth_tokens(..) / captcha(..) setter is the first set call
Init ==
    /\ mode \in Modes
    /\ base_url \in BaseUrls
    /\ auth_tokens \in {None} \cup {Some(tk) : tk \in AuthTokens}
    /\ captcha \in {None} \cup {Some(c) : c \in Captchas}
    /\ holders = {}
    /\ writer = FALSE
    /\ pc = [t \in Tasks |-> "idle"]
    /\ endpoint = [t \in Tasks |-> None]
    /\ req = [t \in Tasks |-> None]
    /\ resp = [t \in Tasks |-> None]
    /\ result = [t \in Tasks |-> None]
    /\ calls = [t \in Tasks |-> 0]
    /\ lastAuthOp = [op |-> IF auth_tokens = None THEN "build" ELSE "set", value |-> auth_tokens]
    /\ lastCaptchaOp = [op |-> IF captcha = None THEN "build" ELSE "set", value |-> captcha]
    /\ codec = None

(* ------------------------------ setters ------------------------------- *)
\* a defect that would let the setters reach the client past the guard
CanMutate_Unguarded == TRUE

\* &mut HttpClient is reachable only while no guard or Ref is outstanding
CanMutate == holders = {}

\* a slip that would overwrite the session token only
set_auth_tokens_SessionOnly(tokens) ==
    /\ CanMutate
    /\ auth_tokens' = IF auth_tokens = None THEN Some(tokens)
                      ELSE Some([auth_tokens[1] EXCEPT !.session = tokens.session])
    /\ lastAuthOp' = [op |-> "set", value |-> Some(tokens)]
    /\ UNCHANGED <<mode, codec, writer, base_url, captcha, holders, taskVars, lastCaptchaOp>>

\* pub fn set_auth_tokens(&mut self, auth_tokens: &AuthTokens)
set_auth_tokens(tokens) ==
    /\ CanMutate
    /\ auth_tokens' = Some(tokens)
    /\ lastAuthOp' = [op |-> "set", value |-> Some(tokens)]
    /\ UNCHANGED <<mode, codec, writer, base_url, captcha, holders, taskVars, lastCaptchaOp>>

\* a slip that would log out by wiping the captcha too
clear_auth_tokens_ClearsCaptcha ==
    /\ CanMutate
    /\ auth_tokens' = None
    /\ captcha' = None
    /\ lastAuthOp' = [op |-> "clear", value |-> None]
    /\ UNCHANGED <<mode, codec, writer, base_url, holders, taskVars, lastCaptchaOp>>

\* pub fn clear_auth_tokens(&mut self)
clear_auth_tokens ==
    /\ CanMutate
    /\ auth_tokens' = None
    /\ lastAuthOp' = [op |-> "clear", value |-> None]
    /\ UNCHANGED <<mode, codec, writer, base_url, captcha, holders, taskVars, lastCaptchaOp>>

\* pub fn set_captcha<T: Into<String>>(&mut self, captcha: T)
set_captcha(c) ==
    /\ CanMutate
    /\ captcha' = Some(c)
    /\ lastCaptchaOp' = [op |-> "set", value |-> Some(c)]
    /\ UNCHANGED <<mode, codec, writer, base_url, auth_tokens, holders, taskVars, lastAuthOp>>

\* pub fn clear_captcha(&mut self)
clear_captcha ==
    /\ CanMutate
    /\ captcha' = None
    /\ lastCaptchaOp' = [op |-> "clear", value |-> None]
    /\ UNCHANGED <<mode, codec, writer, base_url, auth_tokens, holders, taskVars, lastAuthOp>>

(* -------------------------------- send -------------------------------- *)
\* a change that would make send() take the cell exclusively: the borrow fails
\* whenever any other borrow is outstanding
Dispatch_ExclusiveBorrow(t, e, tokens, capt) ==
    LET b == BuildRequest(base_url, tokens, capt, e)
        conflict == mode = "exclusive" /\ (writer \/ holders # {})
    IN  /\ endpoint' = [endpoint EXCEPT ![t] = Some(e)]
        /\ IF conflict
           THEN /\ result' = [result EXCEPT ![t] = Some(BorrowConflict)]
                /\ pc' = [pc EXCEPT ![t] = "done"]
                /\ UNCHANGED <<req, calls, holders>>
           ELSE IF b.ok
           THEN /\ req' = [req EXCEPT ![t] = Some(b.request)]
                /\ calls' = [calls EXCEPT ![t] = calls[t] + 1]
                /\ pc' = [pc EXCEPT ![t] = "inflight"]
                /\ holders' = holders \cup {t}
                /\ UNCHANGED result
           ELSE /\ result' = [result EXCEPT ![t] = Some(b.error)]
                /\ pc' = [pc EXCEPT ![t] = "done"]
                /\ UNCHANGED <<req, calls, holders>>
        /\ UNCHANGED <<mode, codec, writer, client, resp, history>>

\* send() once the guard is available: try_borrow()? (exclusive) fails only
\* while a RefMut is alive, Refs of other sends do not conflict; lock().await
\* (shared) has returned the guard. send_request_without_deserializing then
\* runs up to req.send().await; an early Err returns at once and drops the guard.
Dispatch(t, e, tokens, capt) ==
    LET b == BuildRequest(base_url, tokens, capt, e)
        conflict == mode = "exclusive" /\ writer
    IN  /\ endpoint' = [endpoint EXCEPT ![t] = Some(e)]
        /\ IF conflict
           THEN /\ result' = [result EXCEPT ![t] = Some(BorrowConflict)]
                /\ pc' = [pc EXCEPT ![t] = "done"]
                /\ UNCHANGED <<req, calls, holders>>
           ELSE IF b.ok
           THEN /\ req' = [req EXCEPT ![t] = Some(b.request)]
                /\ calls' = [calls EXCEPT ![t] = calls[t] + 1]
                /\ pc' = [pc EXCEPT ![t] = "inflight"]
                /\ holders' = holders \cup {t}
                /\ UNCHANGED result
           ELSE /\ result' = [result EXCEPT ![t] = Some(b.error)]
                /\ pc' = [pc EXCEPT ![t] = "done"]
                /\ UNCHANGED <<req, calls, holders>>
        /\ UNCHANGED <<mode, codec, writer, client, resp, history>>

\* the mutex is free (shared build); the exclusive build never waits
LockFree == mode = "shared" => holders = {}

\* builder.build()?.send() in one go: the endpoint value is built and sent
StartSend(t, e) ==
    /\ pc[t] = "idle"
    /\ LockFree
    /\ Dispatch(t, e, get_tokens, get_captcha)

\* builder.build()?: an endpoint value holding a clone of the HttpClientRef
BuildEndpoint(t, e) ==
    /\ pc[t] = "idle"
    /\ pc' = [pc EXCEPT ![t] = "built"]
    /\ endpoint' = [endpoint EXCEPT ![t] = Some(e)]
    /\ UNCHANGED <<mode, codec, writer, client, holders, req, resp, result, calls, history>>

\* a defect that would bind the endpoint value to a client of its own
\* (HttpClient is Clone) instead of the shared handle
SendBuilt_OwnClient(t) ==
    /\ pc[t] = "built"
    /\ LockFree
    /\ Dispatch(t, endpoint[t][1], None, None)

\* send() on an endpoint value built earlier, the guard being available
SendBuilt(t) ==
    /\ pc[t] = "built"
    /\ LockFree
    /\ Dispatch(t, endpoint[t][1], get_tokens, get_captcha)

\* send() in the shared build while another task holds the mutex:
\* lock().await suspends the task
WaitLock(t) ==
    /\ pc[t] = "built"
    /\ ~LockFree
    /\ pc' = [pc EXCEPT ![t] = "waiting"]
    /\ UNCHANGED <<mode, codec, writer, client, holders, endpoint, req, resp, result, calls, history>>

\* lock().await resumes with the guard and the dispatch runs
Acquire(t) ==
    /\ pc[t] = "waiting"
    /\ LockFree
    /\ Dispatch(t, endpoint[t][1], get_tokens, get_captcha)

\* the owner of the handle keeps http_client.borrow_mut() alive (exclusive build)
HoldMut ==
    /\ mode = "exclusive" /\ ~writer /\ holders = {}
    /\ writer' = TRUE
    /\ UNCHANGED <<mode, codec, client, holders, taskVars, history>>

\* the RefMut is dropped
DropMut ==
    /\ writer
    /\ writer' = FALSE
    /\ UNCHANGED <<mode, codec, client, holders, taskVars, history>>

\* a change that would send the request once more after a first failure of
\* the transport
TransportFails_Retries(t) ==
    /\ pc[t] = "inflight"
    /\ IF calls[t] < 2
       THEN /\ calls' = [calls EXCEPT ![t] = calls[t] + 1]
            /\ UNCHANGED <<req, result, pc, holders>>
       ELSE /\ req' = [req EXCEPT ![t] = None]
            /\ result' = [result EXCEPT ![t] = Some(RequestError("transport"))]
            /\ pc' = [pc EXCEPT ![t] = "done"]
            /\ holders' = holders \ {t}
            /\ UNCHANGED calls
    /\ UNCHANGED <<mode, codec, writer, client, endpoint, resp, history>>

\* a defect that would read a failed call of the status-driven endpoint as
\* "not following"
TransportFails_AnswersFalse(t) ==
    /\ pc[t] = "inflight"
    /\ req' = [req EXCEPT ![t] = None]
    /\ result' = [result EXCEPT ![t] =
            IF endpoint[t][1] \in GenericEndpoints THEN Some(RequestError("transport"))
            ELSE Some(OkResult(IsFollowingResponse(FALSE)))]
    /\ pc' = [pc EXCEPT ![t] = "done"]
    /\ holders' = holders \ {t}
    /\ UNCHANGED <<mode, codec, writer, client, endpoint, resp, calls, history>>

\* a defect that would leak the guard when the transport fails
TransportFails_KeepsGuard(t) ==
    /\ pc[t] = "inflight"
    /\ req' = [req EXCEPT ![t] = None]
    /\ result' = [result EXCEPT ![t] = Some(RequestError("transport"))]
    /\ pc' = [pc EXCEPT ![t] = "done"]
    /\ UNCHANGED <<mode, codec, writer, client, holders, endpoint, resp, calls, history>>

\* req.send().await fails: Err(RequestError) propagates through every `?`.
\* send() consumes the RequestBuilder, so the request is gone afterwards.
TransportFails(t) ==
    /\ pc[t] = "inflight"
    /\ req' = [req EXCEPT ![t] = None]
    /\ result' = [result EXCEPT ![t] = Some(RequestError("transport"))]
    /\ pc' = [pc EXCEPT ![t] = "done"]
    /\ holders' = holders \ {t}
    /\ UNCHANGED <<mode, codec, writer, client, endpoint, resp, calls, history>>

\* req.send().await yields a response. IsFollowingGroup::send drops the guard
\* at the end of its `let res = ...;` statement; the macro's send() keeps it
\* until send_request has returned.
TransportResponds(t, r) ==
    /\ pc[t] = "inflight"
    /\ req' = [req EXCEPT ![t] = None]
    /\ resp' = [resp EXCEPT ![t] = Some(r)]
    /\ pc' = [pc EXCEPT ![t] = "responded"]
    /\ holders' = IF endpoint[t][1] \in GenericEndpoints THEN holders ELSE holders \ {t}
    /\ UNCHANGED <<mode, codec, writer, client, endpoint, result, calls, history>>

\* a defect that would leave the guard locked after the result is returned
Classify_KeepsGuard(t) ==
    /\ pc[t] = "responded"
    /\ result' = [result EXCEPT ![t] = Some(Classification(endpoint[t][1], resp[t][1]))]
    /\ pc' = [pc EXCEPT ![t] = "done"]
    /\ UNCHANGED <<mode, codec, writer, client, holders, endpoint, req, resp, calls, history>>

\* a defect that would keep the response in a slot shared by all sends, so that
\* a send may classify the response of another one
Classify_SharedSlot(t) ==
    /\ pc[t] = "responded"
    /\ \E u \in Tasks :
            /\ resp[u] # None
            /\ (u # t) \/ (\A v \in Tasks \ {t} : resp[v] = None)
            /\ result' = [result EXCEPT ![t] = Some(Classification(endpoint[t][1], resp[u][1]))]
    /\ pc' = [pc EXCEPT ![t] = "done"]
    /\ holders' = holders \ {t}
    /\ UNCHANGED <<mode, codec, writer, client, endpoint, req, resp, calls, history>>

\* the status is inspected, the body read and decoded, and send() returns
Classify(t) ==
    /\ pc[t] = "responded"
    /\ result' = [result EXCEPT ![t] = Some(Classification(endpoint[t][1], resp[t][1]))]
    /\ pc' = [pc EXCEPT ![t] = "done"]
    /\ holders' = holders \ {t}
    /\ UNCHANGED <<mode, codec, writer, client, endpoint, req, resp, calls, history>>

\* the caller has taken the result; the task may send again
Return(t) ==
    /\ pc[t] = "done"
    /\ pc' = [pc EXCEPT ![t] = "idle"]
    /\ endpoint' = [endpoint EXCEPT ![t] = None]
    /\ req' = [req EXCEPT ![t] = None]
    /\ resp' = [resp EXCEPT ![t] = None]
    /\ result' = [result EXCEPT ![t] = None]
    /\ calls' = [calls EXCEPT ![t] = 0]
    /\ UNCHANGED <<mode, codec, writer, client, holders, history>>

Next ==
    \/ \E tokens \in AuthTokens : set_auth_tokens(tokens)
    \/ clear_auth_tokens
    \/ \E c \in Captchas : set_captcha(c)
    \/ clear_captcha
    \/ \E t \in SeqTasks, e \in Endpoints : StartSend(t, e)
    \/ \E t \in SeqTasks : TransportFails(t)
    \/ \E t \in SeqTasks, r \in Responses : TransportResponds(t, r)
    \/ \E t \in SeqTasks : Classify(t)
    \/ \E t \in SeqTasks : Return(t)
    \/ HoldMut
    \/ DropMut

Spec == Init /\ [][Next]_vars

(* --------------------- two tasks on one client handle ------------------ *)
\* what the setters are called with and what the server answers with when two
\* tasks share the handle
ConcTokens == {[session |-> <<"session", 1>>, refresh |-> <<"refresh", 2>>]}
ConcCaptchas == {<<"captcha", 1>>}
ConcResponses ==
    [status : {200, 404, 500},
     body : {[kind |-> "ok", shape |-> "nodata", data |-> 0],
             [kind |-> "error", errors |-> <<ErrorEntry(1)>>]}]

InitConc ==
    /\ Init
    /\ base_url # API_DEV_URL
    /\ auth_tokens \in {None} \cup {Some(tk) : tk \in ConcTokens}
    /\ captcha \in {None} \cup {Some(c) : c \in ConcCaptchas}

NextConc ==
    \/ \E tokens \in ConcTokens : set_auth_tokens(tokens)
    \/ clear_auth_tokens
    \/ \E c \in ConcCaptchas : set_captcha(c)
    \/ clear_captcha
    \/ \E t \in Tasks, e \in Endpoints : BuildEndpoint(t, e)
    \/ \E t \in Tasks : SendBuilt(t)
    \/ \E t \in Tasks : WaitLock(t)
    \/ \E t \in Tasks : Acquire(t)
    \/ \E t \in Tasks : TransportFails(t)
    \/ \E t \in Tasks, r \in ConcResponses : TransportResponds(t, r)
    \/ \E t \in Tasks : Classify(t)
    \/ \E t \in Tasks : Return(t)
    \/ HoldMut
    \/ DropMut

SpecConc == InitConc /\ [][NextConc]_vars

\* the transport ends every exchange, with a response or with a failure; a task
\* that can go on is polled: a send that has its response classifies it, and a
\* send woken for a free mutex takes it unless the mutex is locked again before
\* the task is polled (futures::lock::Mutex wakes a waiter on unlock and
\* promises no order among the lockers)
FairConc ==
    \A t \in Tasks :
        /\ WF_vars(TransportFails(t) \/ \E r \in ConcResponses : TransportResponds(t, r))
        /\ WF_vars(Classify(t))
        /\ WF_vars(Acquire(t))

SpecConcFair == SpecConc /\ FairConc

(* ------------------- decoding and encoding on their own ---------------- *)
\* "attributes" objects as a server, or this library's own encoder, can write them
ChapterDocs ==
    [title : {JStr("Summoning"), JStr(""), JNull, JAbsent},
     volume : {JStr("1"), JNull},
     pages : {JNum(4), JNull},
     uploader : {JStr("uploader"), JNull, JAbsent},
     version : {JNum(1), JNull}]

CustomListDocs ==
    [name : {JStr("favourites")},
     visibility : {JStr("public"), JStr("private"), JStr("secret"), JNull},
     version : {JNum(1), JNull}]

\* serde_json::from_str::<T>(..)
from_str(ty, w) ==
    IF ty = "chapter" THEN deserialize_ChapterAttributes(w)
    ELSE deserialize_CustomListAttributes(w)

\* serde_json::to_string(&value)
to_string(ty, v) ==
    IF ty = "chapter" THEN serialize_ChapterAttributes(v)
    ELSE serialize_CustomListAttributes(v)

\* everything but the document
sendVars == <<mode, base_url, auth_tokens, captcha, holders, writer, pc, endpoint, req, resp,
              result, calls, lastAuthOp, lastCaptchaOp>>

\* let mangadata = serde_json::from_str(response_text)
Decode ==
    /\ codec # None /\ codec[1].value = None
    /\ codec' = Some([codec[1] EXCEPT !.value = Some(from_str(codec[1].ty, codec[1].wire))])
    /\ UNCHANGED sendVars

\* let json_mangadata = serde_json::to_string(&mangadata)
Reencode ==
    /\ codec # None /\ codec[1].value # None /\ codec[1].value[1].ok
    /\ codec[1].wire2 = None
    /\ codec' = Some([codec[1] EXCEPT !.wire2 = Some(to_string(codec[1].ty, codec[1].value[1].value))])
    /\ UNCHANGED sendVars

\* let mangadata = serde_json::from_str(file1_data)
DecodeAgain ==
    /\ codec # None /\ codec[1].wire2 # None /\ codec[1].value2 = None
    /\ codec' = Some([codec[1] EXCEPT !.value2 = Some(from_str(codec[1].ty, codec[1].wire2[1]))])
    /\ UNCHANGED sendVars

InitCodec ==
    /\ mode = "exclusive" /\ base_url = API_URL
    /\ auth_tokens = None /\ captcha = None
    /\ holders = {} /\ writer = FALSE
    /\ pc = [t \in Tasks |-> "idle"]
    /\ endpoint = [t \in Tasks |-> None]
    /\ req = [t \in Tasks |-> None]
    /\ resp = [t \in Tasks |-> None]
    /\ result = [t \in Tasks |-> None]
    /\ calls = [t \in Tasks |-> 0]
    /\ lastAuthOp = [op |-> "build", value |-> None]
    /\ lastCaptchaOp = [op |-> "build", value |-> None]
    /\ codec \in {Some([ty |-> "chapter", wire |-> w, value |-> None, wire2 |-> None,
                         value2 |-> None]) : w \in ChapterDocs}
                 \cup {Some([ty |-> "custom_list", wire |-> w, value |-> None, wire2 |-> None,
                              value2 |-> None]) : w \in CustomListDocs}

NextCodec == Decode \/ Reencode \/ DecodeAgain

SpecCodec == InitCodec /\ [][NextCodec]_vars

TypeOK ==
    /\ mode \in Modes
    /\ base_url \in BaseUrls
    /\ holders \subseteq Tasks
    /\ writer \in BOOLEAN
    /\ \A t \in Tasks : pc[t] \in {"idle", "built", "waiting", "inflight", "responded", "done"}

(* ------------------------------ claims -------------------------------- *)
\* send() of task t has returned after the transport answered with a response
Answered(t) == pc[t] = "done" /\ resp[t] # None
\* the step is the dispatch of a send() of task t: the guard has been asked
\* for and the send either returns at once or hands its request over
Starts(t) == pc[t] \in {"idle", "built", "waiting"} /\ pc'[t] \in {"inflight", "done"}
\* the step hands a request of task t to the transport
HandsOver(t) == calls'[t] = calls[t] + 1
\* {"result":"error","errors":[...]} with at least one entry
WellFormedError(body) == body.kind = "error" /\ Len(body.errors) >= 1
HeaderNames(r) == {h[1] : h \in r.headers}
HeaderValues(r, name) == {h[2] : h \in {g \in r.headers : g[1] = name}}

\* C1 (as stated): whenever a send starts on an endpoint that requires auth
\* while no tokens are stored, it returns MissingTokens and the transport is
\* not invoked.
C1_Original ==
    [][\A t \in Tasks :
        (Starts(t) /\ endpoint'[t][1].require_auth /\ auth_tokens = None)
            => (result'[t] = Some(MissingTokens) /\ calls'[t] = 0)]_vars

\* C1 (amended): whenever a send starts on an endpoint that requires auth while
\* no tokens are stored, it returns at once with a local error and the
\* transport is not invoked: MissingTokens when the borrow succeeds and the URL
\* resolves, the borrow error or the URL error when try_borrow or
\* base_url.join fails, which are tried first.
C1_MissingTokens ==
    [][\A t \in Tasks :
        (Starts(t) /\ endpoint'[t][1].require_auth /\ auth_tokens = None)
            => /\ pc'[t] = "done"
               /\ calls'[t] = 0
               /\ req'[t] = None
               /\ result'[t] = IF mode = "exclusive" /\ writer
                               THEN Some(BorrowConflict)
                               ELSE IF EndpointUrl(base_url, endpoint'[t][1]).ok
                               THEN Some(MissingTokens)
                               ELSE Some(ParseUrlError)]_vars

C1_Witness ==
    \E t \in Tasks :
        /\ pc[t] = "done" /\ result[t] = Some(MissingTokens) /\ calls[t] = 0
        /\ endpoint[t] = Some(IsFollowingGroup)
        /\ lastAuthOp.op = "clear" /\ lastCaptchaOp.op = "set"

\* C2: a response with a 5xx status whose text is b makes send return
\* ServerError(status, b), whatever b is: never Ok, never Api.
C2_ServerError ==
    \A t \in Tasks :
        (Answered(t) /\ is_server_error(resp[t][1].status) /\ resp[t][1].body # Truncated)
            => result[t] = Some(ServerError(resp[t][1].status, resp[t][1].body))

C2_Witness ==
    \E t \in Tasks :
        /\ Answered(t) /\ endpoint[t][1] \in GenericEndpoints
        /\ resp[t][1].status = 500 /\ resp[t][1].body.kind = "ok"
        /\ resp[t][1].body.shape = endpoint[t][1].shape
        /\ result[t][1].tag = "ServerError"

\* C3 (as stated): for every send, generic or status-driven, a 4xx response
\* whose body is a well-formed "error" envelope is returned as Api.
C3_Original ==
    \A t \in Tasks :
        (Answered(t) /\ resp[t][1].status \in 400..499 /\ WellFormedError(resp[t][1].body))
            => result[t][1].tag = "Api"

\* C3 (amended): a 4xx response whose body is a well-formed "error" envelope is
\* returned as Api by the generic send for every 4xx status, and by
\* IsFollowingGroup::send for status 404; IsFollowingGroup::send returns
\* ServerError(status, body) for every other 4xx status.
C3_ApiError ==
    \A t \in Tasks :
        (Answered(t) /\ resp[t][1].status \in 400..499 /\ WellFormedError(resp[t][1].body))
            => IF endpoint[t][1] \in GenericEndpoints \/ resp[t][1].status = 404
               THEN result[t] = Some(Api(DecodeErrors(resp[t][1].body.errors)))
               ELSE result[t] = Some(ServerError(resp[t][1].status, resp[t][1].body))

C3_Witness ==
    \E t \in Tasks :
        /\ Answered(t) /\ endpoint[t] = Some(ListChapter)
        /\ resp[t][1].status = 403 /\ WellFormedError(resp[t][1].body)
        /\ result[t][1].tag = "Api"

\* C4: IsFollowingGroup::send returns is_following = true for status 200
\* whatever the body, and is_following = false for status 404 with an "ok"
\* envelope (no error list).
C4_StatusDriven ==
    \A t \in Tasks :
        (Answered(t) /\ endpoint[t] = Some(IsFollowingGroup))
            => /\ resp[t][1].status = 200
                    => result[t] = Some(OkResult(IsFollowingResponse(TRUE)))
               /\ (resp[t][1].status = 404 /\ resp[t][1].body.kind = "ok")
                    => result[t] = Some(OkResult(IsFollowingResponse(FALSE)))

C4_Witness ==
    \E t \in Tasks :
        /\ Answered(t) /\ endpoint[t] = Some(IsFollowingGroup)
        /\ resp[t][1].status = 200 /\ resp[t][1].body.kind \in {"error", "notjson"}
        /\ result[t] = Some(OkResult(IsFollowingResponse(TRUE)))

\* C5: IsFollowingGroup::send returns a 404 whose body is an "error" envelope
\* with a non-empty list as Api carrying exactly that list.
C5_NotFoundError ==
    \A t \in Tasks :
        (/\ Answered(t) /\ endpoint[t] = Some(IsFollowingGroup)
         /\ resp[t][1].status = 404 /\ WellFormedError(resp[t][1].body))
            => /\ result[t] = Some(Api(DecodeErrors(resp[t][1].body.errors)))
               /\ Len(result[t][1].errors) = Len(resp[t][1].body.errors)

C5_Witness ==
    \E t \in Tasks :
        /\ Answered(t) /\ endpoint[t] = Some(IsFollowingGroup)
        /\ resp[t][1].status = 404 /\ resp[t][1].body.kind = "error"
        /\ Len(resp[t][1].body.errors) = MaxErrors
        /\ result[t][1].tag = "Api"

\* C6 (as stated): IsFollowingGroup::send returns is_following = false for a
\* 404 whose body is an "error" envelope with an empty list or has no error list.
C6_Original ==
    \A t \in Tasks :
        (/\ Answered(t) /\ endpoint[t] = Some(IsFollowingGroup)
         /\ resp[t][1].status = 404
         /\ \/ resp[t][1].body.kind = "ok"
            \/ resp[t][1].body.kind = "error" /\ resp[t][1].body.errors = <<>>)
            => result[t] = Some(OkResult(IsFollowingResponse(FALSE)))

\* C6 (amended): IsFollowingGroup::send returns is_following = false for a 404
\* exactly when the body is an "ok" envelope (no error list); an "error"
\* envelope with an empty list is returned as Api with an empty list.
C6_NeutralNotFound ==
    \A t \in Tasks :
        (/\ Answered(t) /\ endpoint[t] = Some(IsFollowingGroup)
         /\ resp[t][1].status = 404)
            => /\ result[t] = Some(OkResult(IsFollowingResponse(FALSE)))
                    <=> resp[t][1].body.kind = "ok"
               /\ (resp[t][1].body.kind = "error" /\ resp[t][1].body.errors = <<>>)
                    => result[t] = Some(Api(<<>>))

C6_Witness ==
    \E t \in Tasks :
        /\ Answered(t) /\ endpoint[t] = Some(IsFollowingGroup)
        /\ resp[t][1].status = 404
        /\ resp[t][1].body.kind = "error" /\ resp[t][1].body.errors = <<>>
        /\ result[t][1].tag = "Api"

\* C7: every request handed to the transport carries an Authorization header
\* iff tokens are stored at that moment; its value is Bearer + the session
\* token; require_auth plays no part.
C7_Authorization ==
    [][\A t \in Tasks :
        HandsOver(t)
            => LET r == req'[t][1]
               IN /\ "Authorization" \in HeaderNames(r) <=> auth_tokens # None
                  /\ auth_tokens # None
                        => HeaderValues(r, "Authorization")
                                = {<<"Bearer", auth_tokens[1].session>>}]_vars

C7_Witness ==
    \E t \in Tasks :
        /\ pc[t] = "inflight" /\ endpoint[t] = Some(ListChapter)
        /\ auth_tokens # None /\ auth_tokens[1].session[2] # auth_tokens[1].refresh[2]
        /\ "Authorization" \in HeaderNames(req[t][1])

C9_Tokens ==
    /\ lastAuthOp.op = "set" => (get_tokens # None /\ get_tokens = lastAuthOp.value)
    /\ lastAuthOp.op = "clear" => get_tokens = None
    /\ lastAuthOp.op = "build" => get_tokens = lastAuthOp.value

C9_Witness ==
    /\ lastAuthOp.op = "set"
    /\ get_tokens # None
    /\ get_tokens[1].session[2] # get_tokens[1].refresh[2]
    /\ \E t \in Tasks : pc[t] = "done" /\ result[t] = Some(MissingTokens)

\* C10: the token setters leave captcha and base URL alone, the captcha
\* setters leave tokens and base URL alone, and every step of a send leaves
\* tokens, captcha and base URL alone.
C10_Frame ==
    [][/\ ((\E tokens \in AuthTokens : set_auth_tokens(tokens)) \/ clear_auth_tokens)
            => UNCHANGED <<captcha, base_url>>
       /\ ((\E c \in Captchas : set_captcha(c)) \/ clear_captcha)
            => UNCHANGED <<auth_tokens, base_url>>
       /\ (\E t \in Tasks : pc'[t] # pc[t])
            => UNCHANGED <<auth_tokens, captcha, base_url>>]_vars

C10_Witness ==
    \E t \in Tasks :
        /\ pc[t] = "done" /\ result[t][1].tag = "Api"
        /\ lastAuthOp.op = "set" /\ lastCaptchaOp.op = "clear"
        /\ auth_tokens # None

\* C11 (as stated): in the exclusive build a send that starts while the state
\* is borrowed in any way, also by an earlier send still in flight, returns
\* the borrow error at once and makes no network call.
C11_Original ==
    [][\A t \in Tasks :
        (mode = "exclusive" /\ Starts(t) /\ (writer \/ holders # {}))
            => (result'[t] = Some(BorrowConflict) /\ calls'[t] = 0)]_vars

\* C11 (amended): in the exclusive build a send returns the borrow error, at
\* once and without a network call, exactly when the state is mutably borrowed
\* at that moment; a send started while an earlier send is in flight takes a
\* second shared borrow and is dispatched as usual; no send ever waits.
C11_Borrow ==
    [][\A t \in Tasks :
        mode = "exclusive"
            => /\ pc'[t] # "waiting"
               /\ (Starts(t) /\ writer)
                    => (result'[t] = Some(BorrowConflict) /\ calls'[t] = 0 /\ pc'[t] = "done")
               /\ (Starts(t) /\ ~writer)
                    => /\ result'[t] # Some(BorrowConflict)
                       /\ BuildRequest(base_url, auth_tokens, captcha, endpoint'[t][1]).ok
                            => (pc'[t] = "inflight" /\ HandsOver(t))]_vars

C11_Witness ==
    /\ mode = "exclusive"
    /\ holders = Tasks
    /\ \A t \in Tasks : pc[t] = "inflight" /\ calls[t] = 1

\* C12: in the shared build the mutex is held only by a send that is being
\* dispatched; once a send has returned, with whatever result, it holds
\* nothing, so the mutex is free whenever no send is in progress.
C12_LockReleased ==
    mode = "shared"
        => /\ \A t \in holders : pc[t] \in {"inflight", "responded"}
           /\ (\A t \in Tasks : pc[t] \in {"idle", "built", "done"}) => holders = {}

C12_Witness ==
    /\ mode = "shared"
    /\ holders = {}
    /\ pc["t1"] = "done" /\ result["t1"] = Some(RequestError("transport"))
    /\ pc["t2"] = "done" /\ result["t2"] # None /\ result["t2"][1].tag = "ServerError"

\* C13: in the shared build, with two tasks sending on one handle, the
\* request a task has in flight is made of its own endpoint's method, path
\* and query and of the headers derived from the client state, and the result
\* a task gets is the classification of the response given to that task.
C13_Isolation ==
    mode = "shared"
        => \A t \in Tasks :
            /\ pc[t] = "inflight"
                => LET e == endpoint[t][1]
                       r == req[t][1]
                   IN /\ r.method = e.method
                      /\ r.url = [base |-> base_url, path |-> e.path, query |-> e.query]
                      /\ r.headers = (IF auth_tokens = None THEN {}
                                      ELSE {<<"Authorization", <<"Bearer", auth_tokens[1].session>>>>})
                                     \cup (IF captcha = None THEN {}
                                           ELSE {<<"X-Captcha-Result", captcha[1]>>})
            /\ Answered(t)
                => result[t] = Some(IF endpoint[t][1] \in GenericEndpoints
                                    THEN send_request(endpoint[t][1], resp[t][1])
                                    ELSE IsFollowingGroup_send(resp[t][1]))

C13_Witness ==
    /\ mode = "shared"
    /\ Answered("t1") /\ endpoint["t1"] = Some(IsFollowingGroup)
    /\ Answered("t2") /\ endpoint["t2"] = Some(ListChapter)
    /\ resp["t1"][1].status = 404 /\ resp["t1"][1].body.kind = "ok"
    /\ resp["t2"][1].status = 200 /\ resp["t2"][1].body.kind = "error"
    /\ result["t1"] = Some(OkResult(IsFollowingResponse(FALSE)))
    /\ result["t2"][1].tag = "Api"

\* C14: whatever endpoint value a send goes through, built before or after the
\* last change of tokens or captcha, the request it hands over carries the
\* headers of the last set/clear made through the client; while the request is
\* in the hands of the transport it does not change.
C14_SharedState ==
    [][\A t \in Tasks :
        /\ HandsOver(t)
            => /\ HeaderValues(req'[t][1], "Authorization")
                    = (IF lastAuthOp.value = None THEN {}
                       ELSE {<<"Bearer", lastAuthOp.value[1].session>>})
               /\ HeaderValues(req'[t][1], "X-Captcha-Result")
                    = (IF lastCaptchaOp.value = None THEN {} ELSE {lastCaptchaOp.value[1]})
        /\ (Starts(t) /\ ~HandsOver(t) /\ result'[t] = Some(MissingTokens))
            => lastAuthOp.value = None
        /\ (pc[t] = "inflight" /\ pc'[t] = "inflight") => req'[t] = req[t]]_vars

C14_Witness ==
    /\ pc["t1"] = "inflight" /\ pc["t2"] = "waiting"
    /\ lastAuthOp.op = "set" /\ lastCaptchaOp.op = "clear"
    /\ HeaderNames(req["t1"][1]) = {"Authorization"}

\* C15: when the generic send gets a response that is not 5xx and whose body
\* is an "error" envelope, the result is Api with as many entries as the
\* "errors" array, in the same order, and each entry has the id, the status,
\* the title and the detail of the array's entry at that place (a missing
\* title or detail is None).
C15_ErrorList ==
    \A t \in Tasks :
        (/\ Answered(t) /\ endpoint[t][1] \in GenericEndpoints
         /\ ~is_server_error(resp[t][1].status) /\ resp[t][1].body.kind = "error")
            => LET wire == resp[t][1].body.errors
                   field(j) == IF j \in {JNull, JAbsent} THEN <<>> ELSE <<j[2]>>
               IN /\ result[t][1].tag = "Api"
                  /\ Len(result[t][1].errors) = Len(wire)
                  /\ \A i \in 1..Len(wire) :
                        /\ result[t][1].errors[i].id = wire[i].id[2]
                        /\ result[t][1].errors[i].status = wire[i].status[2]
                        /\ result[t][1].errors[i].title = field(wire[i].title)
                        /\ result[t][1].errors[i].detail = field(wire[i].detail)

C15_Witness ==
    \E t \in Tasks :
        /\ Answered(t) /\ endpoint[t][1] = ListChapter /\ resp[t][1].status = 403
        /\ resp[t][1].body.kind = "error" /\ Len(resp[t][1].body.errors) = 2
        /\ resp[t][1].body.errors[1] # resp[t][1].body.errors[2]
        /\ resp[t][1].body.errors[2].title = JAbsent
        /\ result[t][1].tag = "Api" /\ Len(result[t][1].errors) = 2
        /\ result[t][1].errors[2].title = None

\* an "ok" collection body whose entities have the types ChapterAttributes
\* declares: strings for id and title, numbers for pages and version, a string
\* or nothing for volume and uploader
MatchesChapterCollection(body) ==
    /\ body.kind = "ok" /\ body.shape = "collection"
    /\ IsNum(body.limit) /\ IsNum(body.offset) /\ IsNum(body.total)
    /\ \A i \in 1..Len(body.data) :
          /\ IsStr(body.data[i].id) /\ IsStr(body.data[i].attributes.title)
          /\ IsNum(body.data[i].attributes.pages) /\ IsNum(body.data[i].attributes.version)
          /\ IsOptString(body.data[i].attributes.volume)
          /\ IsOptString(body.data[i].attributes.uploader)

\* C16: when the generic send of a list endpoint gets a response that is not
\* 5xx and whose body is an "ok" collection matching the declared shape, the
\* result is Ok with one entity per element of "data", in the same order, each
\* with the id and the attribute values of its element, and with the limit,
\* offset and total of the body.
C16_Collection ==
    \A t \in Tasks :
        (/\ Answered(t) /\ endpoint[t][1] \in GenericEndpoints
         /\ endpoint[t][1].shape = "collection"
         /\ ~is_server_error(resp[t][1].status) /\ MatchesChapterCollection(resp[t][1].body))
            => LET body == resp[t][1].body
                   opt(j) == IF j \in {JNull, JAbsent} THEN <<>> ELSE <<j[2]>>
               IN /\ result[t][1].tag = "Ok"
                  /\ Len(result[t][1].value.data) = Len(body.data)
                  /\ \A i \in 1..Len(body.data) :
                        LET entity == result[t][1].value.data[i]
                            wire == body.data[i]
                        IN /\ entity.id = wire.id[2]
                           /\ entity.attributes.title = wire.attributes.title[2]
                           /\ entity.attributes.volume = opt(wire.attributes.volume)
                           /\ entity.attributes.pages = wire.attributes.pages[2]
                           /\ entity.attributes.uploader = opt(wire.attributes.uploader)
                           /\ entity.attributes.version = wire.attributes.version[2]
                  /\ result[t][1].value.limit = body.limit[2]
                  /\ result[t][1].value.offset = body.offset[2]
                  /\ result[t][1].value.total = body.total[2]

C16_Witness ==
    \E t \in Tasks :
        /\ Answered(t) /\ endpoint[t][1] = ListChapter /\ resp[t][1].status = 200
        /\ MatchesChapterCollection(resp[t][1].body)
        /\ Len(resp[t][1].body.data) = 2
        /\ resp[t][1].body.data[1].attributes = BareChapter
        /\ resp[t][1].body.data[2].attributes = FullChapter
        /\ result[t][1].tag = "Ok"
        /\ result[t][1].value.data[2].attributes.title = "Summoning"
        /\ result[t][1].value.total = 22

\* the document has the types its struct declares: no null, no missing key and
\* no unknown word where the struct has a plain String, u32 or enum
MatchesDeclared(ty, w) ==
    IF ty = "chapter"
    THEN /\ IsStr(w.title) /\ IsNum(w.pages) /\ IsNum(w.version)
         /\ IsOptString(w.volume) /\ IsOptString(w.uploader)
    ELSE /\ IsStr(w.name) /\ IsNum(w.version)
         /\ w.visibility \in {JStr("public"), JStr("private")}

\* C17 (as stated): for every document matching its declared shape, decoding
\* it, encoding the decoded value and decoding that again gives a value equal
\* to the first decoded value.
C17_RoundTrip ==
    (/\ codec # None /\ MatchesDeclared(codec[1].ty, codec[1].wire)
     /\ codec[1].value2 # None)
        => /\ codec[1].value2[1].ok
           /\ codec[1].value2[1].value = codec[1].value[1].value

\* C17, chapters alone: the law holds for every chapter document that decodes.
C17_ChapterRoundTrip ==
    (codec # None /\ codec[1].ty = "chapter" /\ codec[1].value2 # None)
        => /\ codec[1].value2[1].ok
           /\ codec[1].value2[1].value = codec[1].value[1].value

C17_ChapterWitness ==
    /\ codec # None /\ codec[1].ty = "chapter" /\ codec[1].wire.title = JNull
    /\ codec[1].wire.uploader = JNull
    /\ codec[1].value2 # None /\ codec[1].wire2[1] # codec[1].wire

\* C19 (as stated): a chapter whose title is null decodes, with the empty
\* string as its title; a null or an unrecognised value in another attribute
\* that is not optional (pages, version, a custom list's visibility) makes the
\* decoding fail: no default takes its place.
C19_TolerantDefault ==
    (codec # None /\ codec[1].value # None)
        => LET w == codec[1].wire
               v == codec[1].value[1]
           IN IF codec[1].ty = "chapter"
              THEN /\ (w.title = JNull /\ IsNum(w.pages) /\ IsNum(w.version))
                        => (v.ok /\ v.value.title = "")
                   /\ (w.pages = JNull \/ w.version = JNull) => ~v.ok
              ELSE (w.version = JNull \/ w.visibility \notin {JStr("public"), JStr("private")})
                        => ~v.ok

\* C19, chapters alone: the null default is the title's and no other field's.
C19_ChapterDefault ==
    (codec # None /\ codec[1].ty = "chapter" /\ codec[1].value # None)
        => LET w == codec[1].wire
               v == codec[1].value[1]
           IN /\ (w.title = JNull /\ IsNum(w.pages) /\ IsNum(w.version))
                    => (v.ok /\ v.value.title = "")
              /\ (w.pages = JNull \/ w.version = JNull) => ~v.ok

C19_ChapterWitness ==
    /\ codec # None /\ codec[1].ty = "chapter" /\ codec[1].value # None
    /\ codec[1].wire.title = JNull /\ codec[1].value[1].ok

\* the body is an "ok" envelope of the shape the endpoint declares
MatchesShape(e, body) ==
    /\ body.kind = "ok"
    /\ IF e.shape = "collection" THEN MatchesChapterCollection(body)
       ELSE body.shape = e.shape

\* an "ok" chapter collection that departs from the declared shape in nothing
\* but null titles
NullTitlesOnly(body) ==
    /\ body.kind = "ok" /\ body.shape = "collection"
    /\ ~MatchesChapterCollection(body)
    /\ MatchesChapterCollection(
          [body EXCEPT !.data = [i \in 1..Len(body.data) |->
              [body.data[i] EXCEPT !.attributes.title =
                  IF @ = JNull THEN JStr("") ELSE @]]])

\* the body is not JSON, has no "result" discriminator, or is an "ok" envelope
\* that does not match the shape the endpoint declares
Malformed(e, body) ==
    \/ body.kind \in {"notjson", "nodisc"}
    \/ body.kind = "ok" /\ ~MatchesShape(e, body)

TransportFailed(t) == pc[t] = "done" /\ calls[t] = 1 /\ resp[t] = None

\* C20: when the transport fails while it executes the request, send returns
\* the transport's error, for the generic send and the status-driven endpoint
\* alike: never ServerError, Api, MissingTokens or a boolean.
C20_TransportError ==
    \A t \in Tasks :
        TransportFailed(t)
            => /\ result[t] = Some(RequestError("transport"))
               /\ result[t][1].tag \notin {"ServerError", "Api", "MissingTokens", "Ok"}

C20_Witness ==
    \E t \in Tasks :
        /\ pc[t] = "done" /\ calls[t] = 1 /\ resp[t] = None
        /\ endpoint[t][1] = IsFollowingGroup /\ auth_tokens # None
        /\ result[t] = Some(RequestError("transport"))

\* send() returned an error met before the request reached the transport
LocalError(r) == r \in {BorrowConflict, ParseUrlError, MissingTokens}

\* C21: a call of send hands at most one request to the transport: none when
\* it returns a local error (borrow error, URL error, missing tokens), exactly
\* one otherwise, whatever the transport answers (a failure, a 4xx, a 5xx, a
\* body that cannot be decoded).
C21_NoRetry ==
    \A t \in Tasks :
        /\ calls[t] <= 1
        /\ pc[t] \in {"inflight", "responded"} => calls[t] = 1
        /\ pc[t] = "done" => (calls[t] = IF LocalError(result[t][1]) THEN 0 ELSE 1)

C21_Witness ==
    \E t \in Tasks :
        /\ Answered(t) /\ calls[t] = 1 /\ endpoint[t][1] \in GenericEndpoints
        /\ resp[t][1].status = 500 /\ result[t][1].tag = "ServerError"

\* C22: when IsFollowingGroup::send gets a response whose status is neither
\* 200 nor 404 (another 2xx, a 3xx, another 4xx, a 5xx) and whose text is b, it
\* returns ServerError(status, b): b is the body as it came, an envelope in it
\* is not decoded.
C22_OtherStatus ==
    \A t \in Tasks :
        (/\ Answered(t) /\ endpoint[t][1] = IsFollowingGroup
         /\ resp[t][1].status \notin {200, 404} /\ resp[t][1].body # Truncated)
            => /\ result[t][1].tag = "ServerError"
               /\ result[t][1].status = resp[t][1].status
               /\ result[t][1].body = resp[t][1].body

C22_Witness ==
    \E t \in Tasks :
        /\ Answered(t) /\ endpoint[t][1] = IsFollowingGroup
        /\ resp[t][1].status = 302 /\ resp[t][1].body.kind = "error"
        /\ Len(resp[t][1].body.errors) = 1
        /\ result[t][1].tag = "ServerError" /\ result[t][1].body.kind = "error"

\* C23: in the shared build at most one task holds the lock; a send takes the
\* lock once, in the step that starts its dispatch, and has it when its request
\* is handed over; and as long as a task holds the lock no setter changes the
\* tokens or the captcha, so the request handed over carries the headers of the
\* state as it is at that moment.
C23_MutualExclusion ==
    [][mode = "shared"
        => /\ Cardinality(holders) <= 1 /\ Cardinality(holders') <= 1
           /\ \A t \in Tasks :
                /\ (t \notin holders /\ t \in holders') => (Starts(t) /\ HandsOver(t))
                /\ HandsOver(t)
                     => /\ t \notin holders /\ holders' = {t}
                        /\ req'[t][1].headers =
                              AuthHeaders(auth_tokens', endpoint'[t][1]).headers
                                  \cup CaptchaHeaders(captcha')
                /\ (t \in holders /\ t \in holders') => calls'[t] = calls[t]
           /\ holders # {} => (auth_tokens' = auth_tokens /\ captcha' = captcha)]_vars

C23_Witness ==
    /\ mode = "shared"
    /\ holders = {"t2"} /\ pc["t2"] = "inflight"
    /\ pc["t1"] = "waiting"
    /\ lastAuthOp.op = "set" /\ lastCaptchaOp.op = "clear"

\* C24 (as stated): in the shared build, with a transport that ends every
\* exchange and a fair scheduler, every send that waits for the lock gets it in
\* the end and returns a result.
C24_Original ==
    \A t \in Tasks : (mode = "shared" /\ pc[t] = "waiting") ~> (pc[t] = "done")

\* the sends of the tasks other than t have come to rest
OthersQuiet(t) == \A u \in Tasks \ {t} : pc[u] \in {"idle", "done"}

\* C24 (amended): in the shared build, with a transport that ends every
\* exchange and a fair scheduler, every send that has the lock returns a
\* result, so the lock is free again and again and no set of sends and setters
\* deadlocks; a send that waits for the lock gets it and returns a result
\* unless other sends keep taking the lock for ever.
C24_Progress ==
    \A t \in Tasks :
        /\ (mode = "shared" /\ pc[t] \in {"inflight", "responded"}) ~> (pc[t] = "done")
        /\ (mode = "shared" /\ pc[t] = "waiting") ~> (pc[t] # "waiting" \/ holders = {})
        /\ (<>[]OthersQuiet(t)) => ((mode = "shared" /\ pc[t] = "waiting") ~> (pc[t] = "done"))

C24_Witness ==
    /\ mode = "shared"
    /\ pc["t1"] = "waiting"
    /\ holders = {"t2"} /\ pc["t2"] = "responded"
    /\ endpoint["t2"][1] \in GenericEndpoints

\* C25 (as stated): a custom list that has been decoded, encoded and decoded
\* again has the visibility it had after the first decoding, for Public and
\* for Private: encoding a visibility and decoding the outcome gives the
\* visibility back.
C25_Visibility ==
    (/\ codec # None /\ codec[1].ty = "custom_list"
     /\ codec[1].wire2 # None /\ codec[1].value2 # None)
        => /\ deserialize_CustomListVisibility(codec[1].wire2[1].visibility).ok
           /\ codec[1].value2[1].ok
           /\ codec[1].value2[1].value.visibility = codec[1].value[1].value.visibility

\* C25, Public alone: a custom list decoded as Public stays Public.
C25_PublicVisibility ==
    (/\ codec # None /\ codec[1].ty = "custom_list" /\ codec[1].value2 # None
     /\ codec[1].value[1].value.visibility = "Public")
        => /\ codec[1].value2[1].ok
           /\ codec[1].value2[1].value.visibility = "Public"

C25_PublicWitness ==
    /\ codec # None /\ codec[1].ty = "custom_list"
    /\ codec[1].wire.visibility = JStr("public")
    /\ codec[1].value2 # None /\ codec[1].wire2[1].visibility = JStr("Public")

====
